---- MODULE Spec2Model ----
(***************************************************************************)
(* Model of src/main.py: the nutritional calculator                        *)
(* (CalculadoraNutricional), the JSON stores (DataManager) and the         *)
(* ingredient / recipe handlers of NutritionApp, the daily-value store     *)
(* (ValoresDiarios) and the report (GeradorPDF, gerar_pdf).                *)
(*                                                                         *)
(* Numbers.  Python floats are modelled as exact rationals <<n, d>> in     *)
(* lowest terms with d > 0.  The only place where the binary               *)
(* representation of a double decides an outcome is round(v, 2) on a value *)
(* that lies exactly half way between two hundredths: there the            *)
(* accumulated representation error picks the side, so Round2 yields both  *)
(* neighbours as possible outcomes.                                        *)
(***************************************************************************)
EXTENDS Integers, Sequences, FiniteSets, TLC

VARIABLES
    ingredientes,             \* NutritionApp.ingredientes: list of object ids
    ingObj,                   \* the Ingrediente objects, by id
    receitas,                 \* NutritionApp.receitas: list of object ids
    recObj,                   \* the Receita objects, by id
    ingrediente_selecionado,  \* id of the ingredient under edit, or SemSelecao
    receita_selecionada,      \* id of the recipe under edit, or SemSelecao
    arqIngredientes,          \* content of ingredientes.json
    arqReceitas,              \* content of receitas.json
    arqVD,                    \* content of valores_diarios.json
    escrita,                  \* TRUE while open(file, 'w') succeeds
    notificacao,              \* messageboxes shown by the latest handler, in order
    escapou,                  \* exception that left the latest handler uncaught
    relatorio,                \* PDF written by the latest gerar_pdf
    receitas_porcoes,         \* argument of the latest calcular_por_porcao call
    retorno                   \* its outcome: [fim, excecao, valor]

appVars == <<ingredientes, ingObj, receitas, recObj, ingrediente_selecionado,
             receita_selecionada, arqIngredientes, arqReceitas, arqVD, escrita,
             notificacao, escapou, relatorio>>
calcVars == <<receitas_porcoes, retorno>>
vars == <<ingredientes, ingObj, receitas, recObj, ingrediente_selecionado,
          receita_selecionada, arqIngredientes, arqReceitas, arqVD, escrita,
          notificacao, escapou, relatorio,
          receitas_porcoes, retorno>>

Nenhum == "None"

\* What a call that raised hands back, and what a call that has not run holds.
SemValor == [vazio |-> TRUE]
Pendente == [fim |-> FALSE, excecao |-> Nenhum, valor |-> SemValor]

-----------------------------------------------------------------------------
(* Exact rational arithmetic standing for float arithmetic.                *)

Abs(x) == IF x < 0 THEN -x ELSE x

RECURSIVE GCD(_, _)
GCD(a, b) == IF b = 0 THEN a ELSE GCD(b, a % b)

Rat(n, d) ==
    LET s == IF d < 0 THEN -1 ELSE 1
        g == GCD(Abs(n), Abs(d))
    IN  <<(s * n) \div g, (s * d) \div g>>

Int2Rat(n) == <<n, 1>>
Zero == Int2Rat(0)
\* Sums go through the least common denominator and products cancel across
\* first, so that intermediate values stay small.
RAdd(x, y) ==
    LET g == GCD(x[2], y[2])
    IN  Rat(x[1] * (y[2] \div g) + y[1] * (x[2] \div g), (x[2] \div g) * y[2])
RNeg(x) == <<-x[1], x[2]>>
RSub(x, y) == RAdd(x, RNeg(y))
RMul(x, y) ==
    LET a == Rat(x[1], y[2])
        b == Rat(y[1], x[2])
    IN  <<a[1] * b[1], a[2] * b[2]>>
RDiv(x, y) == RMul(x, Rat(y[2], y[1]))
RLeq(x, y) ==
    LET g == GCD(x[2], y[2])
    IN  x[1] * (y[2] \div g) <= y[1] * (x[2] \div g)
RAbs(x) == <<Abs(x[1]), x[2]>>

\* round(v, ndigits): the multiples of 10^-ndigits nearest to v; both
\* neighbours when v is exactly half way between them.
RoundTo(v, escala) ==
    LET inteiro == v[1] \div v[2]
        n == escala * (v[1] % v[2])
        q == escala * inteiro + (n \div v[2])
        r == n % v[2]
    IN  IF 2 * r < v[2] THEN {Rat(q, escala)}
        ELSE IF 2 * r > v[2] THEN {Rat(q + 1, escala)}
        ELSE {Rat(q, escala), Rat(q + 1, escala)}

Round0(v) == RoundTo(v, 1)
Round2(v) == RoundTo(v, 100)

-----------------------------------------------------------------------------
(* CalculadoraNutricional.calcular_por_porcao                              *)

KcalCarboidrato == 4
KcalProteina == 4
KcalGordura == 9

TotaisZero ==
    [carboidratos |-> Zero, proteina |-> Zero, gordura |-> Zero,
     fibra |-> Zero, sodio |-> Zero, calorias |-> Zero]

\* The calories term of one ingredient with fat weighted like the others.
CaloriasIngrediente_Gordura4(quantidade_efetiva, ingrediente) ==
    RAdd(RAdd(RMul(RMul(quantidade_efetiva, ingrediente.carboidrato_por_g),
                   Int2Rat(KcalCarboidrato)),
              RMul(RMul(quantidade_efetiva, ingrediente.proteina_por_g),
                   Int2Rat(KcalProteina))),
         RMul(RMul(quantidade_efetiva, ingrediente.gordura_por_g),
              Int2Rat(KcalProteina)))

CaloriasIngrediente(quantidade_efetiva, ingrediente) ==
    RAdd(RAdd(RMul(RMul(quantidade_efetiva, ingrediente.carboidrato_por_g),
                   Int2Rat(KcalCarboidrato)),
              RMul(RMul(quantidade_efetiva, ingrediente.proteina_por_g),
                   Int2Rat(KcalProteina))),
         RMul(RMul(quantidade_efetiva, ingrediente.gordura_por_g),
              Int2Rat(KcalGordura)))

\* Body of the inner loop for one (ingrediente, qtd) entry.
SomarIngrediente(totais, ingrediente, qtd, fator) ==
    LET quantidade_efetiva == RMul(Int2Rat(qtd), fator)
    IN  [carboidratos |-> RAdd(totais.carboidratos,
                               RMul(quantidade_efetiva, ingrediente.carboidrato_por_g)),
         proteina |-> RAdd(totais.proteina,
                           RMul(quantidade_efetiva, ingrediente.proteina_por_g)),
         gordura |-> RAdd(totais.gordura,
                          RMul(quantidade_efetiva, ingrediente.gordura_por_g)),
         calorias |-> RAdd(totais.calorias,
                           CaloriasIngrediente(quantidade_efetiva, ingrediente)),
         fibra |-> RAdd(totais.fibra,
                        RMul(quantidade_efetiva, ingrediente.fibra_por_g)),
         sodio |-> RAdd(totais.sodio,
                        RMul(quantidade_efetiva, ingrediente.sodio_por_g))]

RECURSIVE SomarIngredientes(_, _, _)
SomarIngredientes(totais, ingredientes_receita, fator) ==
    IF ingredientes_receita = <<>> THEN totais
    ELSE SomarIngredientes(
             SomarIngrediente(totais, Head(ingredientes_receita)[1],
                              Head(ingredientes_receita)[2], fator),
             Tail(ingredientes_receita), fator)

\* The guard of the outer loop with the comparison off by one case.
RendimentoInvalido_Estrito(receita) == ~RLeq(Zero, receita.rendimento_total)

RendimentoInvalido(receita) == RLeq(receita.rendimento_total, Zero)

\* The scale factor taken over the summed quantities instead of the yield.
Fator_SomaQuantidades(receita, porcao) ==
    LET RECURSIVE Soma(_)
        Soma(s) == IF s = <<>> THEN 0 ELSE Head(s)[2] + Soma(Tail(s))
    IN  IF Soma(receita.ingredientes) = 0 THEN Zero
        ELSE RDiv(porcao, Int2Rat(Soma(receita.ingredientes)))

Fator(receita, porcao) == RDiv(porcao, receita.rendimento_total)

\* The outer loop with the running totals started afresh for every recipe.
RECURSIVE SomarReceitas_Reinicia(_, _)
SomarReceitas_Reinicia(totais, lista) ==
    IF lista = <<>> THEN [fim |-> TRUE, excecao |-> Nenhum, valor |-> totais]
    ELSE LET receita == Head(lista)[1]
             porcao == Head(lista)[2]
         IN  IF RendimentoInvalido(receita)
             THEN [fim |-> TRUE, excecao |-> "ValueError", valor |-> SemValor]
             ELSE IF receita.rendimento_total = Zero
             THEN [fim |-> TRUE, excecao |-> "ZeroDivisionError", valor |-> SemValor]
             ELSE SomarReceitas_Reinicia(
                      SomarIngredientes(TotaisZero, receita.ingredientes,
                                        Fator(receita, porcao)),
                      Tail(lista))

\* The outer loop: the unrounded totals, or the exception that ends the call.
RECURSIVE SomarReceitas(_, _)
SomarReceitas(totais, lista) ==
    IF lista = <<>> THEN [fim |-> TRUE, excecao |-> Nenhum, valor |-> totais]
    ELSE LET receita == Head(lista)[1]
             porcao == Head(lista)[2]
         IN  IF RendimentoInvalido(receita)
             THEN [fim |-> TRUE, excecao |-> "ValueError", valor |-> SemValor]
             ELSE IF receita.rendimento_total = Zero
             THEN [fim |-> TRUE, excecao |-> "ZeroDivisionError", valor |-> SemValor]
             ELSE SomarReceitas(
                      SomarIngredientes(totais, receita.ingredientes,
                                        Fator(receita, porcao)),
                      Tail(lista))

ArredondarTotais(totais) ==
    [carboidratos : Round2(totais.carboidratos),
     proteina : Round2(totais.proteina),
     gordura : Round2(totais.gordura),
     fibra : Round2(totais.fibra),
     sodio : Round2(totais.sodio),
     calorias : Round2(totais.calorias)]

\* The set of outcomes calcular_por_porcao(lista) can have.
calcular_por_porcao(lista) ==
    LET r == SomarReceitas(TotaisZero, lista)
    IN  IF r.excecao # Nenhum THEN {r}
        ELSE {[fim |-> TRUE, excecao |-> Nenhum, valor |-> t] :
                 t \in ArredondarTotais(r.valor)}

Chaves == {"carboidratos", "proteina", "gordura", "fibra", "sodio", "calorias"}

-----------------------------------------------------------------------------
(* Inputs of the calculator specification.                                 *)

MaxLista == 2     \* (recipe, portion) pairs per call

IngredienteA ==
    [nome |-> "A", carboidrato_por_g |-> Rat(4, 5), proteina_por_g |-> Rat(1, 10),
     gordura_por_g |-> Rat(1, 20), fibra_por_g |-> Rat(1, 50),
     sodio_por_g |-> Rat(1, 1)]
IngredienteB ==
    [nome |-> "B", carboidrato_por_g |-> Zero, proteina_por_g |-> Zero,
     gordura_por_g |-> Zero, fibra_por_g |-> Zero, sodio_por_g |-> Zero]
IngredienteC ==
    [nome |-> "C", carboidrato_por_g |-> Rat(13, 1000),
     proteina_por_g |-> Rat(251, 1000), gordura_por_g |-> Rat(27, 1000),
     fibra_por_g |-> Rat(7, 1000), sodio_por_g |-> Rat(503, 1000)]

ItemA == <<IngredienteA, 500>>
ItemB == <<IngredienteB, 500>>
ItemC == <<IngredienteC, 1>>
IngredientesReceitaTeste ==
    {<<>>, <<ItemA, ItemB>>, <<ItemC>>, <<ItemB, ItemC>>, <<ItemC, ItemA, ItemC>>}
RendimentosTeste == {Int2Rat(-1), Zero, Int2Rat(250), Int2Rat(1000)}
PorcoesTeste == {Int2Rat(100), Int2Rat(200)}

SeqsAte(S, n) == UNION {[1..k -> S] : k \in 0..n}

ReceitasTeste ==
    {[nome |-> "Rice", ingredientes |-> is, rendimento_total |-> y] :
        is \in IngredientesReceitaTeste, y \in RendimentosTeste}

ListasTeste == SeqsAte(ReceitasTeste \X PorcoesTeste, MaxLista)

Rice ==
    [nome |-> "Rice",
     ingredientes |-> <<<<IngredienteA, 500>>, <<IngredienteB, 500>>>>,
     rendimento_total |-> Int2Rat(1000)]

-----------------------------------------------------------------------------
(* The application's data: Ingrediente and Receita objects, the two         *)
(* catalogs that list them, and the JSON stores.                           *)

MaxIng == 2       \* Ingrediente objects alive at a time
MaxRec == 2       \* Receita objects alive at a time
MaxItens == 1     \* entries per recipe typed into the form

SemSelecao == 0
IdsIng == 1..MaxIng
IdsRec == 1..MaxRec

NomesIng == {"a", "b"}
NomesRec == {"r", "s"}
Qtds == {1}

Range(f) == {f[i] : i \in DOMAIN f}
Min(S) == CHOOSE x \in S : \A y \in S : x <= y

\* Ingrediente.__init__
Ingrediente(nome, carb, prot, gord, fibra, sodio) ==
    [nome |-> nome, carboidrato_por_g |-> carb, proteina_por_g |-> prot,
     gordura_por_g |-> gord, fibra_por_g |-> fibra, sodio_por_g |-> sodio]

\* Receita.__init__
Receita(nome, ingredientes_receita, rendimento_total) ==
    [nome |-> nome, ingredientes |-> ingredientes_receita,
     rendimento_total |-> rendimento_total]

\* The content of an object slot that holds no live object.
IngLivre == Ingrediente("", Zero, Zero, Zero, Zero, Zero)
RecLivre == Receita("", <<>>, Zero)

\* next((x for x in lista if x.nome == nome), None)
Procurar(lista, objs, nome) ==
    LET idx == {i \in 1..Len(lista) : objs[lista[i]].nome = nome}
    IN  IF idx = {} THEN SemSelecao ELSE lista[Min(idx)]

\* list.remove(x): the first occurrence goes.
Remover(lista, x) ==
    LET k == Min({i \in 1..Len(lista) : lista[i] = x})
    IN  [i \in 1..(Len(lista) - 1) |-> IF i < k THEN lista[i] ELSE lista[i + 1]]

\* Objects still referenced; the others are garbage and their slots free.
RecsVivos(recs, sel) == (Range(recs) \cup {sel}) \ {SemSelecao}
IngsVivos(ings, sel, robj, recsVivos) ==
    (Range(ings) \cup {sel} \cup
     UNION {{e[1] : e \in Range(robj[r].ingredientes)} : r \in recsVivos})
    \ {SemSelecao}

ColetarIng(iobj, vivos) == [i \in IdsIng |-> IF i \in vivos THEN iobj[i] ELSE IngLivre]
ColetarRec(robj, vivos) == [r \in IdsRec |-> IF r \in vivos THEN robj[r] ELSE RecLivre]

\* Ingrediente.to_dict
Ingrediente_to_dict(ing) ==
    [nome |-> ing.nome, carboidrato_por_g |-> ing.carboidrato_por_g,
     proteina_por_g |-> ing.proteina_por_g, gordura_por_g |-> ing.gordura_por_g,
     fibra_por_g |-> ing.fibra_por_g, sodio_por_g |-> ing.sodio_por_g]

\* DataManager.salvar_ingredientes: the file content written.
salvar_ingredientes(ings, iobj) ==
    [i \in 1..Len(ings) |-> Ingrediente_to_dict(iobj[ings[i]])]

\* DataManager.salvar_receitas: entries are written by ingredient name.
salvar_receitas(recs, robj, iobj) ==
    [i \in 1..Len(recs) |->
        LET r == robj[recs[i]]
        IN  [nome |-> r.nome,
             ingredientes |->
                 [j \in 1..Len(r.ingredientes) |->
                     <<iobj[r.ingredientes[j][1]].nome, r.ingredientes[j][2]>>],
             rendimento_total |-> r.rendimento_total]]

\* A record of receitas.json that carries no rendimento_total key.
Ausente == <<>>

\* DataManager.carregar_ingredientes: one new object per record, in order.
carregar_ingredientes(arq) ==
    [lista |-> [i \in 1..Len(arq) |-> i],
     objs |-> [i \in IdsIng |->
                 IF i <= Len(arq)
                 THEN Ingrediente(arq[i].nome, arq[i].carboidrato_por_g,
                                  arq[i].proteina_por_g, arq[i].gordura_por_g,
                                  arq[i].fibra_por_g, arq[i].sodio_por_g)
                 ELSE IngLivre]]

RECURSIVE SomaQtd(_)
SomaQtd(itens) == IF itens = <<>> THEN 0 ELSE Head(itens)[2] + SomaQtd(Tail(itens))

\* The inner loop ended by the first pair that resolves to no ingredient.
RECURSIVE ResolverItens_Interrompe(_, _, _)
ResolverItens_Interrompe(pares, ings, iobj) ==
    IF pares = <<>> THEN <<>>
    ELSE LET ingrediente == Procurar(ings, iobj, Head(pares)[1])
             resto == ResolverItens_Interrompe(Tail(pares), ings, iobj)
         IN  IF ingrediente # SemSelecao
             THEN <<<<ingrediente, Head(pares)[2]>>>> \o resto
             ELSE <<>>

\* The inner loop of carregar_receitas: each stored (name, qtd) pair is resolved
\* to the first ingredient of that name; a pair that resolves to none is dropped.
RECURSIVE ResolverItens(_, _, _)
ResolverItens(pares, ings, iobj) ==
    IF pares = <<>> THEN <<>>
    ELSE LET ingrediente == Procurar(ings, iobj, Head(pares)[1])
             resto == ResolverItens(Tail(pares), ings, iobj)
         IN  IF ingrediente # SemSelecao
             THEN <<<<ingrediente, Head(pares)[2]>>>> \o resto
             ELSE resto

\* item.get('rendimento_total', sum(qtd for _, qtd in ingredientes_receita))
RendimentoCarregado(item, ingredientes_receita) ==
    IF item.rendimento_total = Ausente
    THEN Int2Rat(SomaQtd(ingredientes_receita))
    ELSE item.rendimento_total

\* DataManager.carregar_receitas
carregar_receitas(arq, ings, iobj) ==
    [lista |-> [i \in 1..Len(arq) |-> i],
     objs |-> [r \in IdsRec |->
                 IF r <= Len(arq)
                 THEN LET ingredientes_receita ==
                              ResolverItens(arq[r].ingredientes, ings, iobj)
                      IN  Receita(arq[r].nome, ingredientes_receita,
                                  RendimentoCarregado(arq[r], ingredientes_receita))
                 ELSE RecLivre]]

\* Values typed into the forms and found in the stores at start.
V1 == [carb |-> Rat(4, 5), prot |-> Rat(1, 10), gord |-> Rat(1, 20),
       fibra |-> Rat(1, 50), sodio |-> Int2Rat(1)]
V2 == [carb |-> Zero, prot |-> Zero, gord |-> Zero, fibra |-> Zero, sodio |-> Zero]
CamposForm == {V1}
RendimentosForm == {Int2Rat(1)}
RendimentosInvalidosForm == {Zero, Int2Rat(-1)}

DictIng(nome, v) ==
    Ingrediente_to_dict(Ingrediente(nome, v.carb, v.prot, v.gord, v.fibra, v.sodio))

ArquivosIngredientes ==
    {<<>>, <<DictIng("a", V1)>>, <<DictIng("a", V1), DictIng("b", V2)>>}

\* Stores as found at start: none, a recipe with or without the yield key, and
\* recipes with a yield of zero or below.
ItensArquivo == <<<<"b", 2>>, <<"a", 1>>>>
ArquivosReceitas ==
    {<<>>,
     <<[nome |-> "r", ingredientes |-> ItensArquivo, rendimento_total |-> Int2Rat(2)]>>,
     <<[nome |-> "r", ingredientes |-> ItensArquivo, rendimento_total |-> Ausente]>>,
     <<[nome |-> "r", ingredientes |-> ItensArquivo, rendimento_total |-> Int2Rat(-1)]>>,
     <<[nome |-> "r", ingredientes |-> <<>>, rendimento_total |-> Zero]>>}

-----------------------------------------------------------------------------
(* ValoresDiarios and GeradorPDF.                                          *)

\* valores_diarios.json does not exist.
SemArquivo == [arquivo |-> FALSE]

\* The dictionary ValoresDiarios.carregar returns on FileNotFoundError.
ValoresPadrao ==
    [carboidratos |-> Int2Rat(300), proteinas |-> Int2Rat(75),
     gorduras_totais |-> Int2Rat(55), valor_energetico |-> Int2Rat(2000),
     fibras |-> Int2Rat(30), sodio |-> Int2Rat(5000)]

\* ValoresDiarios.carregar
ValoresDiarios_carregar(arq) == IF arq = SemArquivo THEN ValoresPadrao ELSE arq

\* _salvar_vds, the dictionary built from the six fields of the form.
novos_vd(f) ==
    [carboidratos |-> f.carb, proteinas |-> f.prot, gorduras_totais |-> f.gord,
     fibras_alimentares |-> f.fibra, sodio |-> f.sodio,
     valor_energetico |-> f.kcal]

\* kcal as gerar_tabela_nutricional computes it, from the totals it is given.
KcalRelatorio(dados) ==
    RAdd(RAdd(RMul(dados.carboidratos, Int2Rat(KcalCarboidrato)),
              RMul(dados.proteina, Int2Rat(KcalProteina))),
         RMul(dados.gordura, Int2Rat(KcalGordura)))

KjPorKcal == Rat(523, 125)      \* 4.184

\* The entries of `porcentagens` in evaluation order: the key of the entry and
\* the key of the daily value it divides by.
LinhasPorcentagem ==
    <<<<"carboidratos", "carboidratos">>, <<"proteina", "proteinas">>,
      <<"gordura", "gorduras_totais">>, <<"kcal", "valor_energetico">>,
      <<"fibra", "fibras">>, <<"sodio", "sodio">>>>

\* The keys of the daily values the generator reads.
ChavesVD == {LinhasPorcentagem[i][2] : i \in DOMAIN LinhasPorcentagem}

\* The exception that evaluating one entry of `porcentagens` raises, if any.
FalhaPorcentagem(vd, linha) ==
    IF linha[2] \notin DOMAIN vd THEN "KeyError"
    ELSE IF vd[linha[2]] = Zero THEN "ZeroDivisionError"
    ELSE Nenhum

\* (total / vd) * 100
Porcento(total, referencia) == RMul(RDiv(total, referencia), Int2Rat(100))

\* f"{v:.1f}" and f"{v:.0f}"
Exibir1(v) == RoundTo(v, 10)
Exibir0(v) == RoundTo(v, 1)

\* GeradorPDF.gerar_tabela_nutricional up to doc.build: the exception that
\* ends it, or the reports it can build.
gerar_tabela_nutricional(dados, peso_porcao, arq) ==
    LET vd == ValoresDiarios_carregar(arq)
        kcal == KcalRelatorio(dados)
        kj == RMul(kcal, KjPorKcal)
        total == [k \in {"carboidratos", "proteina", "gordura", "fibra", "sodio"}
                    |-> dados[k]] @@ [k \in {"kcal"} |-> kcal]
        falhas == {i \in DOMAIN LinhasPorcentagem :
                      FalhaPorcentagem(vd, LinhasPorcentagem[i]) # Nenhum}
    IN  IF falhas # {}
        THEN {[excecao |-> FalhaPorcentagem(vd, LinhasPorcentagem[Min(falhas)]),
               valor |-> SemValor]}
        ELSE LET porcentagens ==
                     [i \in DOMAIN LinhasPorcentagem |->
                         Porcento(total[LinhasPorcentagem[i][1]],
                                  vd[LinhasPorcentagem[i][2]])]
                 pct(k) == LET i == CHOOSE j \in DOMAIN LinhasPorcentagem :
                                        LinhasPorcentagem[j][1] = k
                           IN  porcentagens[i]
             IN  {[excecao |-> Nenhum, valor |-> v] :
                  v \in [peso_porcao : {peso_porcao},
                         kcal : {kcal},
                         porcentagens : {[k \in DOMAIN total |-> pct(k)]},
                         valor_energetico : Exibir1(kcal),
                         kj : Exibir0(kj),
                         carboidratos : Exibir1(dados.carboidratos),
                         proteina : Exibir1(dados.proteina),
                         gordura : Exibir1(dados.gordura),
                         fibra : Exibir1(dados.fibra),
                         sodio : Exibir1(dados.sodio),
                         vd_kcal : Exibir1(pct("kcal")),
                         vd_carboidratos : Exibir1(pct("carboidratos")),
                         vd_proteina : Exibir1(pct("proteina")),
                         vd_gordura : Exibir1(pct("gordura")),
                         vd_fibra : Exibir1(pct("fibra")),
                         vd_sodio : Exibir1(pct("sodio"))]}

\* The application with nothing loaded.
AppVazio ==
    /\ ingredientes = <<>>
    /\ ingObj = [i \in IdsIng |-> IngLivre]
    /\ receitas = <<>>
    /\ recObj = [r \in IdsRec |-> RecLivre]
    /\ ingrediente_selecionado = SemSelecao
    /\ receita_selecionada = SemSelecao
    /\ arqIngredientes = <<>>
    /\ arqReceitas = <<>>
    /\ arqVD = SemArquivo
    /\ escrita = TRUE
    /\ notificacao = <<>>
    /\ escapou = Nenhum
    /\ relatorio = SemValor

-----------------------------------------------------------------------------
(* Specification of the calculator alone.                                  *)

\* The caller has built its argument; the call has not run yet.
InitCalc ==
    /\ AppVazio
    /\ receitas_porcoes \in ListasTeste
    /\ retorno = Pendente

\* One call of calcular_por_porcao(receitas_porcoes).
Calcular ==
    /\ retorno = Pendente
    /\ retorno' \in calcular_por_porcao(receitas_porcoes)
    /\ UNCHANGED <<appVars, receitas_porcoes>>

NextCalc == Calcular

SpecCalc == InitCalc /\ [][NextCalc]_vars

-----------------------------------------------------------------------------
(* The handlers of NutritionApp.                                           *)

\* The memory after a handler: unreferenced objects are collected.
Memoria(ings, iobj, recs, robj, selI, selR) ==
    /\ ingredientes' = ings
    /\ receitas' = recs
    /\ ingrediente_selecionado' = selI
    /\ receita_selecionada' = selR
    /\ ingObj' = ColetarIng(iobj, IngsVivos(ings, selI, robj, RecsVivos(recs, selR)))
    /\ recObj' = ColetarRec(robj, RecsVivos(recs, selR))

\* messagebox.showerror and messagebox.showinfo: the box the user sees.
showerror(texto) == <<"erro", texto>>
showinfo(texto) == <<"sucesso", texto>>

\* The box DataManager.salvar_receitas shows when its write fails.
FalhaReceitas == <<showerror("Falha ao salvar receitas")>>

\* How a catalog handler ends: the messageboxes it has shown and the exception
\* that left it, if any; it touches neither the daily values nor a report.
Fim(caixas, excecao_nao_tratada) ==
    /\ notificacao' = caixas
    /\ escapou' = excecao_nao_tratada
    /\ UNCHANGED <<arqVD, escrita, relatorio>>

memVars == <<ingredientes, ingObj, receitas, recObj, ingrediente_selecionado,
             receita_selecionada>>
arqVars == <<arqIngredientes, arqReceitas>>

\* NutritionApp.__init__: both catalogs are loaded from the stores.
Carregado(arqI, arqR) ==
    LET li == carregar_ingredientes(arqI)
        lr == carregar_receitas(arqR, li.lista, li.objs)
    IN  /\ ingredientes = li.lista
        /\ ingObj = li.objs
        /\ receitas = lr.lista
        /\ recObj = lr.objs
        /\ ingrediente_selecionado = SemSelecao
        /\ receita_selecionada = SemSelecao

Init ==
    /\ arqIngredientes \in ArquivosIngredientes
    /\ arqReceitas \in ArquivosReceitas
    /\ Carregado(arqIngredientes, arqReceitas)
    /\ arqVD = SemArquivo
    /\ escrita = TRUE
    /\ notificacao = <<>>
    /\ escapou = Nenhum
    /\ relatorio = SemValor
    /\ receitas_porcoes = <<>>
    /\ retorno = Pendente

\* The application is closed and started again: __init__ runs on the stores.
Reiniciar ==
    LET li == carregar_ingredientes(arqIngredientes)
        lr == carregar_receitas(arqReceitas, li.lista, li.objs)
        vd == ValoresDiarios_carregar(arqVD)
    IN  /\ Memoria(li.lista, li.objs, lr.lista, lr.objs, SemSelecao, SemSelecao)
        \* _criar_aba_config fills its fields from the loaded daily values.
        /\ Fim(<<>>, IF ChavesVD \subseteq DOMAIN vd THEN Nenhum ELSE "KeyError")
        /\ UNCHANGED <<arqVars, calcVars>>

\* _carregar_ingrediente_selecionado
CarregarIngredienteSelecionado(nome) ==
    LET ingrediente == Procurar(ingredientes, ingObj, nome)
    IN  /\ ingrediente_selecionado' =
              IF nome = "" \/ ingrediente = SemSelecao
              THEN ingrediente_selecionado ELSE ingrediente
        /\ Fim(<<>>, Nenhum)
        /\ UNCHANGED <<ingredientes, ingObj, receitas, recObj, receita_selecionada,
                       arqVars, calcVars>>

\* _novo_ingrediente
NovoIngrediente ==
    /\ Memoria(ingredientes, ingObj, receitas, recObj, SemSelecao,
               receita_selecionada)
    /\ Fim(<<>>, Nenhum)
    /\ UNCHANGED <<arqVars, calcVars>>

\* _atualizar_combos_ingredientes, the loop: an entry whose ingredient carries
\* the old name is pointed at the ingredient under edit.
AtualizarReceitas(robj, recs, iobj, old_name, selecionado) ==
    [r \in IdsRec |->
        IF r \in Range(recs)
        THEN [robj[r] EXCEPT !.ingredientes =
                 [j \in 1..Len(robj[r].ingredientes) |->
                     IF iobj[robj[r].ingredientes[j][1]].nome = old_name
                     THEN <<selecionado, robj[r].ingredientes[j][2]>>
                     ELSE robj[r].ingredientes[j]]]
        ELSE robj[r]]

\* any(i.nome == nome for i in self.ingredientes)
NomeIngredienteRepetido(nome) ==
    \E i \in 1..Len(ingredientes) : ingObj[ingredientes[i]].nome = nome

\* The name test of the edit branch taken as never met.
Renomeado_Nunca(old_name, nome) == FALSE

\* old_name != nome
Renomeado(old_name, nome) == old_name # nome

\* salvar_ingrediente
SalvarIngrediente(valido, nome, v) ==
    IF ~valido
    THEN /\ Fim(<<showerror("Preencha todos os campos corretamente")>>, Nenhum)
         /\ UNCHANGED <<memVars, arqVars, calcVars>>
    ELSE IF ingrediente_selecionado # SemSelecao
    THEN LET ingrediente == ingrediente_selecionado
             old_name == ingObj[ingrediente].nome
             iobj1 == [ingObj EXCEPT ![ingrediente] =
                          Ingrediente(nome, v.carb, v.prot, v.gord, v.fibra, v.sodio)]
             robj1 == IF Renomeado(old_name, nome)
                      THEN AtualizarReceitas(recObj, receitas, iobj1, old_name,
                                             ingrediente)
                      ELSE recObj
         IN  IF escrita
             THEN /\ Memoria(ingredientes, iobj1, receitas, robj1, SemSelecao,
                             receita_selecionada)
                  /\ arqReceitas' = IF Renomeado(old_name, nome)
                                    THEN salvar_receitas(receitas, robj1, iobj1)
                                    ELSE arqReceitas
                  /\ arqIngredientes' = salvar_ingredientes(ingredientes, iobj1)
                  /\ Fim(<<showinfo("Ingrediente salvo com sucesso!")>>, Nenhum)
                  /\ UNCHANGED calcVars
             \* salvar_receitas catches the failed write and shows it;
             \* salvar_ingredientes lets it out of the handler.
             ELSE /\ Memoria(ingredientes, iobj1, receitas, robj1,
                             ingrediente_selecionado, receita_selecionada)
                  /\ Fim(IF Renomeado(old_name, nome) THEN FalhaReceitas ELSE <<>>,
                         "OSError")
                  /\ UNCHANGED <<arqVars, calcVars>>
    ELSE IF NomeIngredienteRepetido(nome)
    THEN /\ Fim(<<showerror("Ja existe um ingrediente com este nome!")>>, Nenhum)
         /\ UNCHANGED <<memVars, arqVars, calcVars>>
    ELSE LET livres == IdsIng \ IngsVivos(ingredientes, ingrediente_selecionado,
                                          recObj,
                                          RecsVivos(receitas, receita_selecionada))
         IN  /\ livres # {}
             /\ LET novo_ing == Min(livres)
                     iobj1 == [ingObj EXCEPT ![novo_ing] =
                                  Ingrediente(nome, v.carb, v.prot, v.gord,
                                              v.fibra, v.sodio)]
                     ings1 == Append(ingredientes, novo_ing)
                 IN  /\ Memoria(ings1, iobj1, receitas, recObj, SemSelecao,
                                receita_selecionada)
                     /\ arqIngredientes' = IF escrita
                                           THEN salvar_ingredientes(ings1, iobj1)
                                           ELSE arqIngredientes
                     /\ IF escrita THEN Fim(<<showinfo("Ingrediente salvo com sucesso!")>>, Nenhum)
                                   ELSE Fim(<<>>, "OSError")
                     /\ UNCHANGED <<arqReceitas, calcVars>>

\* _deletar_ingrediente, the cascade: entries are filtered by ingredient name.
FiltrarReceitas(robj, recs, iobj, nome) ==
    [r \in IdsRec |->
        IF r \in Range(recs)
        THEN [robj[r] EXCEPT !.ingredientes =
                 SelectSeq(robj[r].ingredientes, LAMBDA e : iobj[e[1]].nome # nome)]
        ELSE robj[r]]

\* _deletar_ingrediente
DeletarIngrediente(nome, resposta) ==
    LET ingrediente == Procurar(ingredientes, ingObj, nome)
    IN  IF nome = "" \/ ~resposta \/ ingrediente = SemSelecao
        THEN /\ Fim(<<>>, Nenhum)
             /\ UNCHANGED <<memVars, arqVars, calcVars>>
        ELSE LET ings1 == Remover(ingredientes, ingrediente)
                 robj1 == FiltrarReceitas(recObj, receitas, ingObj, nome)
             IN  IF escrita
                 THEN /\ Memoria(ings1, ingObj, receitas, robj1, SemSelecao,
                                 receita_selecionada)
                      /\ arqIngredientes' = salvar_ingredientes(ings1, ingObj)
                      /\ arqReceitas' = salvar_receitas(receitas, robj1, ingObj)
                      /\ Fim(<<showinfo("Ingrediente excluido com sucesso!")>>, Nenhum)
                      /\ UNCHANGED calcVars
                 \* salvar_ingredientes lets the failed write out of the handler.
                 ELSE /\ Memoria(ings1, ingObj, receitas, robj1,
                                 ingrediente_selecionado, receita_selecionada)
                      /\ Fim(<<>>, "OSError")
                      /\ UNCHANGED <<arqVars, calcVars>>

\* _carregar_receita_selecionada
CarregarReceitaSelecionada(nome) ==
    LET receita == Procurar(receitas, recObj, nome)
    IN  /\ receita_selecionada' =
              IF nome = "" \/ receita = SemSelecao
              THEN receita_selecionada ELSE receita
        /\ Fim(<<>>, Nenhum)
        /\ UNCHANGED <<ingredientes, ingObj, receitas, recObj,
                       ingrediente_selecionado, arqVars, calcVars>>

\* _nova_receita
NovaReceita ==
    /\ Memoria(ingredientes, ingObj, receitas, recObj, ingrediente_selecionado,
               SemSelecao)
    /\ Fim(<<>>, Nenhum)
    /\ UNCHANGED <<arqVars, calcVars>>

\* A text that float() rejects, and a line that does not split in two.
NaoNumerico == <<>>
LinhaInvalida == <<"abc">>
LinhasForm == (NomesIng \X Qtds) \cup {LinhaInvalida}

\* salvar_receita, the parse loop: a line is read when it splits into a name
\* and a quantity and the name is found in the catalog.
LinhaLida(linha) ==
    /\ Len(linha) = 2
    /\ Procurar(ingredientes, ingObj, linha[1]) # SemSelecao

\* The messageboxes of a recipe handler that reaches its end: salvar_receitas
\* catches a failed write and shows it, and the handler goes on to its own
\* success message.
SalvoReceitas(texto) ==
    IF escrita THEN <<showinfo(texto)>> ELSE FalhaReceitas \o <<showinfo(texto)>>

\* any(r.nome == nome for r in self.receitas)
NomeReceitaRepetido(nome) ==
    \E i \in 1..Len(receitas) : recObj[receitas[i]].nome = nome

\* The yield test with zero let through.
RendimentoRecusado_Negativo(rendimento) ==
    IF rendimento = NaoNumerico THEN TRUE ELSE ~RLeq(Zero, rendimento)

\* float() raises, or rendimento_total <= 0.
RendimentoRecusado(rendimento) ==
    IF rendimento = NaoNumerico THEN TRUE ELSE RLeq(rendimento, Zero)

\* salvar_receita up to the end of the parse loop: the text of the error box
\* that ends the handler there, or Nenhum when the form is read in full.
RecusaReceita(rendimento, nome, linhas) ==
    IF RendimentoRecusado(rendimento)
    THEN "Rendimento total deve ser um numero positivo"
    ELSE IF nome = "" \/ linhas = <<>>
    THEN "Preencha todos os campos"
    ELSE IF \E j \in 1..Len(linhas) : ~LinhaLida(linhas[j])
    THEN "Formato invalido na linha"
    ELSE Nenhum

\* salvar_receita
SalvarReceita(rendimento, nome, linhas) ==
    IF RecusaReceita(rendimento, nome, linhas) # Nenhum
    THEN /\ Fim(<<showerror(RecusaReceita(rendimento, nome, linhas))>>, Nenhum)
         /\ UNCHANGED <<memVars, arqVars, calcVars>>
    ELSE LET ingredientes_receita ==
                 [j \in 1..Len(linhas) |->
                     <<Procurar(ingredientes, ingObj, linhas[j][1]), linhas[j][2]>>]
         IN  IF receita_selecionada # SemSelecao
             THEN LET robj1 == [recObj EXCEPT ![receita_selecionada] =
                                   Receita(nome, ingredientes_receita, rendimento)]
                  IN  /\ Memoria(ingredientes, ingObj, receitas, robj1,
                                 ingrediente_selecionado, SemSelecao)
                      /\ arqReceitas' = IF escrita
                                        THEN salvar_receitas(receitas, robj1, ingObj)
                                        ELSE arqReceitas
                      /\ Fim(SalvoReceitas("Receita salva com sucesso!"), Nenhum)
                      /\ UNCHANGED <<arqIngredientes, calcVars>>
             ELSE IF NomeReceitaRepetido(nome)
             THEN /\ Fim(<<showerror("Ja existe uma receita com este nome!")>>, Nenhum)
                  /\ UNCHANGED <<memVars, arqVars, calcVars>>
             ELSE LET livres == IdsRec \ RecsVivos(receitas, receita_selecionada)
                  IN  /\ livres # {}
                      /\ LET nova_receita == Min(livres)
                              robj1 == [recObj EXCEPT ![nova_receita] =
                                           Receita(nome, ingredientes_receita,
                                                   rendimento)]
                              recs1 == Append(receitas, nova_receita)
                          IN  /\ Memoria(ingredientes, ingObj, recs1, robj1,
                                         ingrediente_selecionado, SemSelecao)
                              /\ arqReceitas' =
                                    IF escrita
                                    THEN salvar_receitas(recs1, robj1, ingObj)
                                    ELSE arqReceitas
                              /\ Fim(SalvoReceitas("Receita salva com sucesso!"), Nenhum)
                              /\ UNCHANGED <<arqIngredientes, calcVars>>

\* _deletar_receita
DeletarReceita(nome, resposta) ==
    LET receita == Procurar(receitas, recObj, nome)
    IN  IF nome = "" \/ ~resposta \/ receita = SemSelecao
        THEN /\ Fim(<<>>, Nenhum)
             /\ UNCHANGED <<memVars, arqVars, calcVars>>
        ELSE LET recs1 == Remover(receitas, receita)
             IN  /\ Memoria(ingredientes, ingObj, recs1, recObj,
                            ingrediente_selecionado, SemSelecao)
                 /\ arqReceitas' = IF escrita
                                   THEN salvar_receitas(recs1, recObj, ingObj)
                                   ELSE arqReceitas
                 /\ Fim(SalvoReceitas("Receita excluida com sucesso!"), Nenhum)
                 /\ UNCHANGED <<arqIngredientes, calcVars>>

\* What the recipe form can hold when "Salvar Receita" is pressed.  A yield
\* that is rejected ends the handler before the other fields are read, and so
\* does an empty name before the lines are read.
EntradasReceita ==
    ((RendimentosInvalidosForm \cup {NaoNumerico}) \X {"r"}
        \X {<<>>, <<<<"a", 1>>>>})
    \cup (RendimentosForm \X {""} \X {<<>>})
    \cup (RendimentosForm \X NomesRec \X SeqsAte(LinhasForm, MaxItens))

Next ==
    \/ Reiniciar
    \/ \E nome \in NomesIng \cup {""} : CarregarIngredienteSelecionado(nome)
    \/ NovoIngrediente
    \/ \E valido \in BOOLEAN, nome \in NomesIng, v \in CamposForm :
          SalvarIngrediente(valido, nome, v)
    \/ \E nome \in NomesIng \cup {""}, resposta \in BOOLEAN :
          DeletarIngrediente(nome, resposta)
    \/ \E nome \in NomesRec \cup {""} : CarregarReceitaSelecionada(nome)
    \/ NovaReceita
    \/ \E e \in EntradasReceita : SalvarReceita(e[1], e[2], e[3])
    \/ \E nome \in NomesRec \cup {""}, resposta \in BOOLEAN :
          DeletarReceita(nome, resposta)

Spec == Init /\ [][Next]_vars

\* The same handlers on a disk that refuses every write, started on the
\* stores that hold two ingredients and a recipe and fed valid input.
ArquivoIngredientesFalha == <<DictIng("a", V1), DictIng("b", V2)>>
ArquivoReceitasFalha ==
    <<[nome |-> "r", ingredientes |-> ItensArquivo, rendimento_total |-> Int2Rat(2)]>>

InitFalha ==
    /\ arqIngredientes = ArquivoIngredientesFalha
    /\ arqReceitas = ArquivoReceitasFalha
    /\ Carregado(arqIngredientes, arqReceitas)
    /\ arqVD = SemArquivo
    /\ escrita = FALSE
    /\ notificacao = <<>>
    /\ escapou = Nenhum
    /\ relatorio = SemValor
    /\ receitas_porcoes = <<>>
    /\ retorno = Pendente

NextFalha ==
    \/ Reiniciar
    \/ \E nome \in NomesIng : CarregarIngredienteSelecionado(nome)
    \/ NovoIngrediente
    \/ \E nome \in NomesIng : SalvarIngrediente(TRUE, nome, V2)
    \/ \E nome \in NomesIng : DeletarIngrediente(nome, TRUE)
    \/ \E nome \in NomesRec : CarregarReceitaSelecionada(nome)
    \/ NovaReceita
    \/ \E nome \in NomesRec, linha \in NomesIng \X Qtds :
          SalvarReceita(Int2Rat(1), nome, <<linha>>)
    \/ \E nome \in NomesRec : DeletarReceita(nome, TRUE)

SpecFalha == InitFalha /\ [][NextFalha]_vars

-----------------------------------------------------------------------------
(* The daily-value form and the report.                                    *)

\* What the six fields of the configuration form can hold.
VD1 == [carb |-> Int2Rat(300), prot |-> Int2Rat(75), gord |-> Int2Rat(55),
        fibra |-> Int2Rat(30), sodio |-> Int2Rat(5000), kcal |-> Int2Rat(2000)]
VD2 == [carb |-> Int2Rat(250), prot |-> Int2Rat(50), gord |-> Int2Rat(50),
        fibra |-> Int2Rat(25), sodio |-> Int2Rat(2000), kcal |-> Int2Rat(1000)]
VDsForm == {VD1, VD2}

\* _salvar_vds
SalvarVds(valido, f) ==
    /\ IF ~valido
       THEN /\ notificacao' = <<showerror("Valores invalidos!")>>
            /\ escapou' = Nenhum
            /\ UNCHANGED arqVD
       \* ValoresDiarios.salvar opens the file outside the try of its own and
       \* the handler catches ValueError only.
       ELSE IF ~escrita
       THEN /\ notificacao' = <<>>
            /\ escapou' = "OSError"
            /\ UNCHANGED arqVD
       ELSE /\ arqVD' = novos_vd(f)
            /\ notificacao' = <<showinfo("Valores atualizados!")>>
            /\ escapou' = Nenhum
    /\ UNCHANGED <<memVars, arqVars, escrita, relatorio, calcVars>>

\* The texts of a row of the "Gerar PDF" tab: an empty field and a portion
\* that float() rejects.
CampoVazio == <<"">>
PorcaoInvalida == <<"abc">>

\* The Receita object as the calculator sees it: its entries hold the
\* Ingrediente objects themselves.
ReceitaDe(r) ==
    [nome |-> recObj[r].nome,
     ingredientes |-> [j \in 1..Len(recObj[r].ingredientes) |->
                          <<ingObj[recObj[r].ingredientes[j][1]],
                            recObj[r].ingredientes[j][2]>>],
     rendimento_total |-> recObj[r].rendimento_total]

\* float(quantidade) raises ValueError.
NaoConverte(quantidade) == quantidade \in {CampoVazio, PorcaoInvalida}

\* A row skipped only when both of its fields are empty.
LinhaIgnorada_Ambas(nome_receita, quantidade) ==
    nome_receita = "" /\ quantidade = CampoVazio

\* not (nome_receita and quantidade)
LinhaIgnorada(nome_receita, quantidade) ==
    nome_receita = "" \/ quantidade = CampoVazio

\* gerar_pdf, the loop over the rows: the list it collects and the summed
\* portions, or the exception that ends it.
RECURSIVE ColetarLinhas(_, _, _)
ColetarLinhas(linhas, lista, peso_total) ==
    IF linhas = <<>>
    THEN [excecao |-> Nenhum, lista |-> lista, peso_total |-> peso_total]
    ELSE LET nome_receita == Head(linhas)[1]
             quantidade == Head(linhas)[2]
             receita == Procurar(receitas, recObj, nome_receita)
         IN  IF LinhaIgnorada(nome_receita, quantidade)
             THEN ColetarLinhas(Tail(linhas), lista, peso_total)
             ELSE IF receita = SemSelecao
             THEN [excecao |-> "StopIteration", lista |-> lista,
                   peso_total |-> peso_total]
             ELSE IF NaoConverte(quantidade)
             THEN [excecao |-> "ValueError", lista |-> lista,
                   peso_total |-> peso_total]
             ELSE ColetarLinhas(Tail(linhas),
                                Append(lista, <<ReceitaDe(receita), quantidade>>),
                                RAdd(peso_total, quantidade))

\* gerar_pdf
GerarPdf(linhas) ==
    LET coleta == ColetarLinhas(linhas, <<>>, Zero)
    IN  /\ IF coleta.excecao # Nenhum
           THEN /\ notificacao' = <<>>
                /\ escapou' = coleta.excecao
                /\ relatorio' = SemValor
                /\ UNCHANGED calcVars
           ELSE IF coleta.lista = <<>>
           THEN /\ notificacao' = <<showerror("Adicione pelo menos uma receita")>>
                /\ escapou' = Nenhum
                /\ relatorio' = SemValor
                /\ UNCHANGED calcVars
           ELSE /\ receitas_porcoes' = coleta.lista
                /\ retorno' \in calcular_por_porcao(coleta.lista)
                /\ IF retorno'.excecao # Nenhum
                   THEN /\ notificacao' = <<>>
                        /\ escapou' = retorno'.excecao
                        /\ relatorio' = SemValor
                   ELSE \E tabela \in gerar_tabela_nutricional(
                                         retorno'.valor, coleta.peso_total, arqVD) :
                           IF tabela.excecao # Nenhum
                           THEN /\ notificacao' = <<>>
                                /\ escapou' = tabela.excecao
                                /\ relatorio' = SemValor
                           \* doc.build writes the file.
                           ELSE IF ~escrita
                           THEN /\ notificacao' = <<>>
                                /\ escapou' = "OSError"
                                /\ relatorio' = SemValor
                           ELSE /\ notificacao' = <<showinfo("PDF gerado")>>
                                /\ escapou' = Nenhum
                                /\ relatorio' = tabela.valor
        /\ UNCHANGED <<memVars, arqVars, arqVD, escrita>>

\* The stores the report is exercised on: an ingredient with fine-grained
\* coefficients, a recipe made of it, and a second recipe whose stored yield
\* is positive, zero or negative.
V3 == [carb |-> Rat(13, 1000), prot |-> Rat(251, 1000), gord |-> Rat(27, 1000),
       fibra |-> Rat(7, 1000), sodio |-> Rat(503, 1000)]
ArquivoIngredientesRelatorio == <<DictIng("a", V1), DictIng("b", V3)>>
ArquivosReceitasRelatorio ==
    {<<[nome |-> "r", ingredientes |-> <<<<"b", 1>>>>,
        rendimento_total |-> Int2Rat(1000)],
       [nome |-> "s", ingredientes |-> <<<<"a", 500>>>>,
        rendimento_total |-> rendimento]>> :
     rendimento \in {Int2Rat(1000), Zero, Int2Rat(-1)}}

PorcoesRelatorio == {Int2Rat(200)}
MaxLinhas == 2
LinhasRelatorio ==
    (NomesRec \cup {"", "x"}) \X (PorcoesRelatorio \cup {CampoVazio, PorcaoInvalida})

InitRelatorio ==
    /\ arqIngredientes = ArquivoIngredientesRelatorio
    /\ arqReceitas \in ArquivosReceitasRelatorio
    /\ Carregado(arqIngredientes, arqReceitas)
    /\ arqVD = SemArquivo
    /\ escrita \in BOOLEAN
    /\ notificacao = <<>>
    /\ escapou = Nenhum
    /\ relatorio = SemValor
    /\ receitas_porcoes = <<>>
    /\ retorno = Pendente

NextRelatorio ==
    \/ \E valido \in BOOLEAN, f \in VDsForm : SalvarVds(valido, f)
    \/ \E linhas \in SeqsAte(LinhasRelatorio, MaxLinhas) : GerarPdf(linhas)

SpecRelatorio == InitRelatorio /\ [][NextRelatorio]_vars

-----------------------------------------------------------------------------
(* Properties of calcular_por_porcao.                                      *)

Chamada == retorno.fim
RendimentosPositivos(lista) ==
    \A i \in 1..Len(lista) : ~RLeq(lista[i][1].rendimento_total, Zero)
Dobro(x) == RMul(Int2Rat(2), x)
Centesimo == Rat(1, 100)
Perto(x, y, tol) == RLeq(RAbs(RSub(x, y)), tol)

\* v is x rounded to two decimal places: a whole number of hundredths that
\* lies within half a hundredth of x.
ArredondadoDe(v, x) == 100 % v[2] = 0 /\ Perto(v, x, Rat(1, 200))

\* The per-gram amount of a category in an ingredient; the energy of a gram is
\* 4 kcal per gram of carbohydrate and of protein and 9 per gram of fat.
PorGrama(ingrediente, k) ==
    CASE k = "carboidratos" -> ingrediente.carboidrato_por_g
      [] k = "proteina" -> ingrediente.proteina_por_g
      [] k = "gordura" -> ingrediente.gordura_por_g
      [] k = "fibra" -> ingrediente.fibra_por_g
      [] k = "sodio" -> ingrediente.sodio_por_g
      [] k = "calorias" ->
            RAdd(RAdd(RMul(Int2Rat(4), ingrediente.carboidrato_por_g),
                      RMul(Int2Rat(4), ingrediente.proteina_por_g)),
                 RMul(Int2Rat(9), ingrediente.gordura_por_g))

\* The sum over the entries of a recipe of quantity x per-gram amount.
RECURSIVE SomaReceita(_, _)
SomaReceita(ingredientes_receita, k) ==
    IF ingredientes_receita = <<>> THEN Zero
    ELSE RAdd(RMul(Int2Rat(Head(ingredientes_receita)[2]),
                   PorGrama(Head(ingredientes_receita)[1], k)),
              SomaReceita(Tail(ingredientes_receita), k))

\* The sum over the pairs of (P / Y) x the recipe's sum.
RECURSIVE TotalEsperado(_, _)
TotalEsperado(lista, k) ==
    IF lista = <<>> THEN Zero
    ELSE RAdd(RDiv(RMul(Head(lista)[2], SomaReceita(Head(lista)[1].ingredientes, k)),
                   Head(lista)[1].rendimento_total),
              TotalEsperado(Tail(lista), k))

\* C1: for every list whose recipes all have a positive yield, the call
\* returns, for each of the six categories, the sum over all pairs and entries
\* of quantity x (P / Y) x per-gram amount (energy: 4, 4 and 9 kcal per gram of
\* carbohydrate, protein and fat), rounded to two decimal places.
C1_TotaisArredondados ==
    (Chamada /\ RendimentosPositivos(receitas_porcoes)) =>
        /\ retorno.excecao = Nenhum
        /\ \A k \in Chaves :
              ArredondadoDe(retorno.valor[k], TotalEsperado(receitas_porcoes, k))

\* A call over two recipes, the first with several entries and a yield that
\* differs from its summed quantities, whose energy is not a whole number of
\* hundredths before rounding.
C1_Witness ==
    /\ Chamada /\ RendimentosPositivos(receitas_porcoes)
    /\ Len(receitas_porcoes) = 2
    /\ Len(receitas_porcoes[1][1].ingredientes) = 3
    /\ 100 % TotalEsperado(receitas_porcoes, "calorias")[2] # 0
    /\ retorno.valor.carboidratos # Zero

ChamadaRice == <<<<Rice, Int2Rat(200)>>>>

\* C2 as stated: the 200 g portion of Rice yields 80.0, 10.0, 5.0, 2.0, 100.0
\* and calories 725.0.
C2_Original ==
    (Chamada /\ receitas_porcoes = ChamadaRice) =>
        /\ retorno.excecao = Nenhum
        /\ retorno.valor =
              [carboidratos |-> Int2Rat(80), proteina |-> Int2Rat(10),
               gordura |-> Int2Rat(5), fibra |-> Int2Rat(2),
               sodio |-> Int2Rat(100), calorias |-> Int2Rat(725)]

\* C2 amended: the 200 g portion of Rice yields 80.0, 10.0, 5.0, 2.0, 100.0
\* and calories 80 x 4 + 10 x 4 + 5 x 9 = 405.0.
C2_Rice ==
    (Chamada /\ receitas_porcoes = ChamadaRice) =>
        /\ retorno.excecao = Nenhum
        /\ retorno.valor =
              [carboidratos |-> Int2Rat(80), proteina |-> Int2Rat(10),
               gordura |-> Int2Rat(5), fibra |-> Int2Rat(2),
               sodio |-> Int2Rat(100), calorias |-> Int2Rat(405)]

C2_Witness == Chamada /\ receitas_porcoes = ChamadaRice

\* C3: when any recipe of the list has a yield <= 0, the call ends with
\* ValueError and hands back no totals, wherever that recipe stands.
C3_RendimentoInvalido ==
    (Chamada /\ ~RendimentosPositivos(receitas_porcoes)) =>
        /\ retorno.excecao = "ValueError"
        /\ retorno.valor = SemValor

\* A recipe with yield 0 in second place, after a recipe with a positive yield
\* whose entries have already been added to the running totals.
C3_Witness ==
    /\ Chamada
    /\ Len(receitas_porcoes) = 2
    /\ ~RLeq(receitas_porcoes[1][1].rendimento_total, Zero)
    /\ receitas_porcoes[1][1].ingredientes # <<>>
    /\ receitas_porcoes[2][1].rendimento_total = Zero
    /\ retorno.excecao = "ValueError"

UmaReceitaValida ==
    /\ Chamada /\ Len(receitas_porcoes) = 1
    /\ RendimentosPositivos(receitas_porcoes)

ChamadaDobrada ==
    <<<<receitas_porcoes[1][1], Dobro(receitas_porcoes[1][2])>>>>

\* C4 as stated: every total returned for [(R, 2P)] is exactly twice the total
\* returned for [(R, P)].
C4_Original ==
    UmaReceitaValida =>
        \A r2 \in calcular_por_porcao(ChamadaDobrada) : \A k \in Chaves :
            r2.valor[k] = Dobro(retorno.valor[k])

\* C4 amended: every total returned for [(R, 2P)] differs from twice the total
\* returned for [(R, P)] by at most one hundredth.
C4_DobroAproximado ==
    UmaReceitaValida =>
        \A r2 \in calcular_por_porcao(ChamadaDobrada) : \A k \in Chaves :
            Perto(r2.valor[k], Dobro(retorno.valor[k]), Centesimo)

\* A single recipe whose doubled portion returns a carbohydrate total that is
\* one hundredth away from twice the returned one.
C4_Witness ==
    /\ UmaReceitaValida
    /\ \E r2 \in calcular_por_porcao(ChamadaDobrada) :
          /\ r2.valor.carboidratos # Dobro(retorno.valor.carboidratos)
          /\ r2.valor.sodio = Dobro(retorno.valor.sodio)
          /\ r2.valor.sodio # Zero

DuasReceitasValidas ==
    /\ Chamada /\ Len(receitas_porcoes) = 2
    /\ RendimentosPositivos(receitas_porcoes)

\* C5 as stated: every total returned for [(R1, P1), (R2, P2)] equals the sum
\* of the totals returned for [(R1, P1)] and for [(R2, P2)].
C5_Original ==
    DuasReceitasValidas =>
        \A r1 \in calcular_por_porcao(<<receitas_porcoes[1]>>) :
        \A r2 \in calcular_por_porcao(<<receitas_porcoes[2]>>) :
        \A k \in Chaves :
            retorno.valor[k] = RAdd(r1.valor[k], r2.valor[k])

\* C5 amended: every total returned for [(R1, P1), (R2, P2)] differs from the
\* sum of the totals returned for [(R1, P1)] and for [(R2, P2)] by at most one
\* hundredth.
C5_SomaAproximada ==
    DuasReceitasValidas =>
        \A r1 \in calcular_por_porcao(<<receitas_porcoes[1]>>) :
        \A r2 \in calcular_por_porcao(<<receitas_porcoes[2]>>) :
        \A k \in Chaves :
            Perto(retorno.valor[k], RAdd(r1.valor[k], r2.valor[k]), Centesimo)

\* Two different recipes with entries, where the joint call returns a total
\* that is not the sum of the separate ones and another that is.
C5_Witness ==
    /\ DuasReceitasValidas
    /\ receitas_porcoes[1] # receitas_porcoes[2]
    /\ \E r1 \in calcular_por_porcao(<<receitas_porcoes[1]>>) :
       \E r2 \in calcular_por_porcao(<<receitas_porcoes[2]>>) :
          /\ \E k \in Chaves : retorno.valor[k] # RAdd(r1.valor[k], r2.valor[k])
          /\ \E k \in Chaves :
                /\ retorno.valor[k] = RAdd(r1.valor[k], r2.valor[k])
                /\ r1.valor[k] # Zero /\ r2.valor[k] # Zero

-----------------------------------------------------------------------------
(* Properties of the catalogs and the stores.                              *)

EntradasDe(r) == recObj[r].ingredientes

\* C6: after a confirmed _deletar_ingrediente of an ingredient x found in the
\* catalog, no recipe holds an entry for x, every entry for another ingredient
\* is still in its recipe with its quantity and in the same relative order,
\* and the catalog has lost x and nothing else.
C6_Original ==
    [][\A nome \in NomesIng :
         LET x == Procurar(ingredientes, ingObj, nome)
         IN  (x # SemSelecao /\ DeletarIngrediente(nome, TRUE)) =>
                 /\ receitas' = receitas
                 /\ \A r \in Range(receitas) :
                       /\ \A e \in Range(recObj'[r].ingredientes) : e[1] # x
                       /\ recObj'[r].ingredientes =
                             SelectSeq(EntradasDe(r), LAMBDA e : e[1] # x)
                 /\ ingredientes' = SelectSeq(ingredientes, LAMBDA i : i # x)
                 /\ \A i \in Range(ingredientes') : ingObj'[i] = ingObj[i]]_vars

\* C7: no two ingredients of the in-memory catalog have the same name.
C7_Original ==
    \A i, j \in 1..Len(ingredientes) :
        i # j => ingObj[ingredientes[i]].nome # ingObj[ingredientes[j]].nome

\* C8: no two recipes of the in-memory catalog have the same name.
C8_Original ==
    \A i, j \in 1..Len(receitas) :
        i # j => recObj[receitas[i]].nome # recObj[receitas[j]].nome

\* C9: every recipe of the in-memory catalog has a yield above zero.
C9_Original ==
    \A i \in 1..Len(receitas) :
        ~RLeq(recObj[receitas[i]].rendimento_total, Zero)

ReferenciasNoCatalogo ==
    \A r \in Range(receitas) : \A e \in Range(EntradasDe(r)) :
        e[1] \in Range(ingredientes)

\* C10: when both catalogs have been saved and the recipes refer only to
\* catalog ingredients, loading the stores again yields as many records in the
\* same order with the same field values, each recipe entry referring to an
\* ingredient with the field values it had before.
C10_Original ==
    [][(/\ Reiniciar
        /\ arqIngredientes = salvar_ingredientes(ingredientes, ingObj)
        /\ arqReceitas = salvar_receitas(receitas, recObj, ingObj)
        /\ ReferenciasNoCatalogo) =>
           /\ Len(ingredientes') = Len(ingredientes)
           /\ \A i \in 1..Len(ingredientes) :
                 ingObj'[ingredientes'[i]] = ingObj[ingredientes[i]]
           /\ Len(receitas') = Len(receitas)
           /\ \A i \in 1..Len(receitas) :
                 LET antes == recObj[receitas[i]]
                     depois == recObj'[receitas'[i]]
                 IN  /\ depois.nome = antes.nome
                     /\ depois.rendimento_total = antes.rendimento_total
                     /\ Len(depois.ingredientes) = Len(antes.ingredientes)
                     /\ \A j \in 1..Len(antes.ingredientes) :
                           /\ depois.ingredientes[j][2] = antes.ingredientes[j][2]
                           /\ ingObj'[depois.ingredientes[j][1]] =
                                 ingObj[antes.ingredientes[j][1]]]_vars

-----------------------------------------------------------------------------
(* Properties of the daily values and the report.                          *)

Erros == {i \in DOMAIN notificacao : notificacao[i][1] = "erro"}
Sucessos == {i \in DOMAIN notificacao : notificacao[i][1] = "sucesso"}

\* C11: after a save of six valid numbers through the configuration form the
\* loaded daily values hold, under each of the six keys the report generator
\* reads, the value that was saved, and no report fails on a missing key.
C11_Original ==
    [][/\ \A f \in VDsForm :
             (escrita /\ SalvarVds(TRUE, f)) =>
                 LET vd == ValoresDiarios_carregar(arqVD')
                 IN  /\ ChavesVD \subseteq DOMAIN vd
                     /\ vd["carboidratos"] = f.carb
                     /\ vd["proteinas"] = f.prot
                     /\ vd["gorduras_totais"] = f.gord
                     /\ vd["valor_energetico"] = f.kcal
                     /\ vd["fibras"] = f.fibra
                     /\ vd["sodio"] = f.sodio
       /\ escapou' # "KeyError"]_vars

\* A row of the report tab that supplies both a recipe name and a portion.
LinhaCompleta(linha) == linha[1] # "" /\ linha[2] # CampoVazio

\* C12: calcular_por_porcao of the empty list returns six totals of 0 and
\* raises nothing; gerar_pdf with no complete row shows an error, does not
\* call the calculator, writes no report and changes nothing else.
C12_ListaVazia ==
    [][/\ calcular_por_porcao(<<>>) =
             {[fim |-> TRUE, excecao |-> Nenhum, valor |-> TotaisZero]}
       /\ \A linhas \in SeqsAte(LinhasRelatorio, MaxLinhas) :
             ((\A i \in 1..Len(linhas) : ~LinhaCompleta(linhas[i]))
                 /\ GerarPdf(linhas)) =>
                 /\ notificacao' = <<showerror("Adicione pelo menos uma receita")>>
                 /\ escapou' = Nenhum
                 /\ relatorio' = SemValor
                 /\ UNCHANGED <<memVars, arqVars, arqVD, calcVars>>]_vars

\* gerar_pdf has turned a request down while no calculator call was ever made.
C12_Witness ==
    /\ notificacao = <<showerror("Adicione pelo menos uma receita")>>
    /\ retorno = Pendente
    /\ relatorio = SemValor

-----------------------------------------------------------------------------
(* Properties of the handlers when a write fails.                          *)

\* The latest handler met a failed write.
EscritaFalhou ==
    \/ escapou = "OSError"
    \/ \E i \in DOMAIN notificacao : notificacao[i] = FalhaReceitas[1]

\* C13: a create, edit or delete handler whose write fails shows an error,
\* shows no success message and leaves both in-memory catalogs as they were.
C13_Original ==
    [][EscritaFalhou' =>
           /\ Erros' # {}
           /\ Sucessos' = {}
           /\ ingredientes' = ingredientes
           /\ receitas' = receitas
           /\ \A i \in Range(ingredientes) : ingObj'[i] = ingObj[i]
           /\ \A r \in Range(receitas) : recObj'[r] = recObj[r]]_vars

-----------------------------------------------------------------------------
(* Properties of the handlers when every write succeeds.                   *)

Mostrou(caixa) == \E i \in DOMAIN notificacao : notificacao[i] = caixa

IngredientesGravados ==
    arqIngredientes = salvar_ingredientes(ingredientes, ingObj)
ReceitasGravadas ==
    arqReceitas = salvar_receitas(receitas, recObj, ingObj)

\* C14 as stated: after every completed create, edit or delete of an
\* ingredient or a recipe both stores equal the serialization of their
\* in-memory catalog.
C14_Original ==
    [][Sucessos' # {} => (IngredientesGravados' /\ ReceitasGravadas')]_vars

\* C14: each completed operation rewrites the store of the catalog it
\* changed.  The ingredient store equals the serialized ingredient catalog
\* after an ingredient save or delete; the recipe store equals the serialized
\* recipe catalog, entries under the current ingredient names, after a recipe
\* save or delete, an ingredient delete and an ingredient rename.
C14_ArquivoCorrespondente ==
    [][/\ (Mostrou(showinfo("Ingrediente salvo com sucesso!"))'
             \/ Mostrou(showinfo("Ingrediente excluido com sucesso!"))')
          => IngredientesGravados'
       /\ (Mostrou(showinfo("Receita salva com sucesso!"))'
             \/ Mostrou(showinfo("Receita excluida com sucesso!"))'
             \/ Mostrou(showinfo("Ingrediente excluido com sucesso!"))')
          => ReceitasGravadas'
       /\ \A nome \in NomesIng, v \in CamposForm :
             (/\ ingrediente_selecionado # SemSelecao
              /\ ingObj[ingrediente_selecionado].nome # nome
              /\ SalvarIngrediente(TRUE, nome, v))
             => ReceitasGravadas']_vars

\* An ingredient was saved and the recipe store lists an entry of recipe r
\* under "b", the only name in the catalog.
C14_Witness ==
    /\ notificacao = <<showinfo("Ingrediente salvo com sucesso!")>>
    /\ Len(ingredientes) = 1
    /\ ingObj[ingredientes[1]].nome = "b"
    /\ Len(arqReceitas) = 1
    /\ arqReceitas[1].ingredientes = <<<<"b", 1>>>>
    /\ IngredientesGravados /\ ReceitasGravadas

-----------------------------------------------------------------------------
(* Properties of loading the recipe store.                                 *)

NomesNoCatalogo == {ingObj[i].nome : i \in Range(ingredientes)}

\* C15: carregar_receitas, applied to the recipe store against the catalog in
\* memory, yields one recipe per stored record, in order and under its name,
\* whose entries are the stored (name, quantity) pairs whose name is in the
\* catalog, in stored order and with the stored quantities, each referring to
\* a catalog ingredient of that name; the other pairs are dropped and a recipe
\* left without entries is kept.
C15_ParesResolvidos ==
    LET lr == carregar_receitas(arqReceitas, ingredientes, ingObj)
    IN  /\ Len(lr.lista) = Len(arqReceitas)
        /\ \A i \in 1..Len(arqReceitas) :
              LET esperado == SelectSeq(arqReceitas[i].ingredientes,
                                        LAMBDA par : par[1] \in NomesNoCatalogo)
                  receita == lr.objs[lr.lista[i]]
              IN  /\ receita.nome = arqReceitas[i].nome
                  /\ Len(receita.ingredientes) = Len(esperado)
                  /\ \A j \in 1..Len(esperado) :
                        /\ receita.ingredientes[j][1] \in Range(ingredientes)
                        /\ ingObj[receita.ingredientes[j][1]].nome = esperado[j][1]
                        /\ receita.ingredientes[j][2] = esperado[j][2]

\* Right after a start: the store holds pairs for "b" and "a", the catalog
\* holds "a" alone, and the loaded recipe is left with the pair of "a".
C15_Witness ==
    /\ notificacao = <<>>
    /\ Len(arqReceitas) = 1 /\ arqReceitas[1].ingredientes = ItensArquivo
    /\ Len(ingredientes) = 1 /\ ingObj[ingredientes[1]].nome = "a"
    /\ Len(receitas) = 1
    /\ recObj[receitas[1]].ingredientes = <<<<ingredientes[1], 1>>>>

-----------------------------------------------------------------------------
(* Properties of the input validation of the two save handlers.            *)

\* What the recipe form holds is not a recipe: the yield is not a number or
\* not above zero, the name or the list is empty, or a line does not split in
\* two or names an ingredient that is not in the catalog.
EntradaInvalida(e) ==
    \/ e[1] = NaoNumerico
    \/ (e[1] # NaoNumerico /\ RLeq(e[1], Zero))
    \/ e[2] = ""
    \/ e[3] = <<>>
    \/ \E j \in 1..Len(e[3]) :
          \/ Len(e[3][j]) # 2
          \/ (Len(e[3][j]) = 2 /\ e[3][j][1] \notin NomesNoCatalogo)

\* The boxes that end salvar_receita before it has built anything.
RecusasReceita ==
    {showerror("Rendimento total deve ser um numero positivo"),
     showerror("Preencha todos os campos"),
     showerror("Formato invalido na linha")}

\* C16: salvar_receita turns every such form down, in create and in edit
\* mode; a step that shows one of its rejections, and salvar_ingrediente with
\* a field that is not a number, show an error and no success, and leave the
\* catalogs, the edit selections and the stores as they were.
C16_EntradaRecusada ==
    /\ [](\A e \in EntradasReceita :
             EntradaInvalida(e) =>
                 showerror(RecusaReceita(e[1], e[2], e[3])) \in RecusasReceita)
    /\ [][/\ (\E i \in DOMAIN notificacao' : notificacao'[i] \in RecusasReceita)
             => /\ Erros' # {} /\ Sucessos' = {} /\ escapou' = Nenhum
                /\ UNCHANGED <<memVars, arqVars>>
          /\ \A nome \in NomesIng, v \in CamposForm :
                SalvarIngrediente(FALSE, nome, v) =>
                    /\ Erros' # {} /\ Sucessos' = {} /\ escapou' = Nenhum
                    /\ UNCHANGED <<memVars, arqVars>>]_vars

\* A recipe under edit whose save was turned down for a bad line.
C16_Witness ==
    /\ notificacao = <<showerror("Formato invalido na linha")>>
    /\ receita_selecionada # SemSelecao

-----------------------------------------------------------------------------
(* Properties of gerar_pdf.                                                *)

\* A complete row that cannot be reported: its portion is not a number, its
\* name is the name of no recipe, or its recipe has a yield of zero or below.
LinhaSemRelatorio(linha) ==
    /\ LinhaCompleta(linha)
    /\ \/ linha[2] = PorcaoInvalida
       \/ Procurar(receitas, recObj, linha[1]) = SemSelecao
       \/ RLeq(recObj[Procurar(receitas, recObj, linha[1])].rendimento_total, Zero)

\* C17: gerar_pdf with such a row shows an error, writes no report and lets
\* no exception out of the handler.
C17_Original ==
    [][\A linhas \in SeqsAte(LinhasRelatorio, MaxLinhas) :
           ((\E i \in 1..Len(linhas) : LinhaSemRelatorio(linhas[i]))
               /\ GerarPdf(linhas)) =>
               /\ Erros' # {}
               /\ relatorio' = SemValor
               /\ escapou' = Nenhum]_vars

\* C18: in a report that was written, each of the six percentages is the
\* calculator's total of the category over the daily value of the category,
\* times 100, and the energy percentage and the energy shown come from the
\* calculator's `calorias`.
C18_Original ==
    [][notificacao' = <<showinfo("PDF gerado")>> =>
           LET dados == retorno'.valor
               vd == ValoresDiarios_carregar(arqVD)
               p == relatorio'.porcentagens
           IN  /\ p["carboidratos"] = Porcento(dados.carboidratos, vd["carboidratos"])
               /\ p["proteina"] = Porcento(dados.proteina, vd["proteinas"])
               /\ p["gordura"] = Porcento(dados.gordura, vd["gorduras_totais"])
               /\ p["fibra"] = Porcento(dados.fibra, vd["fibras"])
               /\ p["sodio"] = Porcento(dados.sodio, vd["sodio"])
               /\ p["kcal"] = Porcento(dados.calorias, vd["valor_energetico"])
               /\ relatorio'.kcal = dados.calorias
               /\ relatorio'.valor_energetico \in Exibir1(dados.calorias)]_vars

-----------------------------------------------------------------------------
(* Referential integrity of the memory.                                    *)

\* C19: every entry of every catalog recipe refers to an ingredient of the
\* ingredient catalog, and each edit selection is empty or in its catalog.
\* It holds while every write succeeds; _deletar_ingrediente reaches
\* _novo_ingrediente only after both stores are written, so a failed write
\* leaves the deleted ingredient selected.
C19_Original ==
    /\ ReferenciasNoCatalogo
    /\ ingrediente_selecionado \in Range(ingredientes) \cup {SemSelecao}
    /\ receita_selecionada \in Range(receitas) \cup {SemSelecao}

====
